---- MODULE Spec2Model ----
(***************************************************************************)
(* A model of chokitto's consolidation code (lib/data.py: Document and     *)
(* Clipping) and of the PDF text search (lib/exporters.py:                 *)
(* PdfMergeExporter._get_page_text and _search_page).                      *)
(*                                                                         *)
(* Representation of Python values:                                        *)
(*   None                  <<>>                                            *)
(*   (START, END)          <<START, END>>                                  *)
(*   a datetime object     <<t>>, t a natural number (later = larger)      *)
(*   clip_type 'a+b'       the set {"a", "b"}: the code only ever builds   *)
(*                         '+'.join(sorted(set(...))), which is one string *)
(*                         per set of tags                                 *)
(*   a str                 a sequence of one-character strings             *)
(*   content               [kind, text, items]: kind "text" is a str       *)
(*                         (text), kind "list" a list of Clipping (items), *)
(*                         kind "clip" one Clipping object (items[1])      *)
(*   list indices          1-based here, 0-based in the code               *)
(***************************************************************************)
EXTENDS Integers, Sequences, FiniteSets, TLC

VARIABLES
    clippings,      \* Document.clippings
    type_idx_map,   \* Document._type_idx_map: clip_type -> list of indices
    err,            \* the exception that ended the run, or None
    last_op,        \* the operation that produced this state
    n_added,        \* add_clipping calls since the document was empty
    pass,           \* what the last merge_clippings / deduplicate_clippings did
    self_clip,      \* the receiver of the last Clipping method call
    other_clip,     \* its argument
    ret,            \* what that call returned
    page_txt_raw,   \* page.getText() of the page being searched
    clipping_content, \* clipping.content of the highlight being searched
    found,          \* what the first loop of _search_page came to
    frame           \* the locals of a running merge_clippings call

vars == <<clippings, type_idx_map, err, last_op, n_added, pass, self_clip, other_clip,
          ret, page_txt_raw, clipping_content, found, frame>>

None == <<>>

\* ---------------------------------------------------------------- helpers

Min(S) == CHOOSE x \in S : \A y \in S : x <= y

Max(S) == CHOOSE x \in S : \A y \in S : y <= x

Range(s) == {s[i] : i \in 1..Len(s)}

\* Python's `needle in hay` for two str
Contains(hay, needle) ==
    \E i \in 0..(Len(hay) - Len(needle)) :
        \A k \in 1..Len(needle) : hay[i + k] = needle[k]

\* ---------------------------------------------------------------- Clipping

TextContent(txt) == [kind |-> "text", text |-> txt, items |-> <<>>]

ListContent(cs) == [kind |-> "list", text |-> <<>>, items |-> cs]

ClipContent(c) == [kind |-> "clip", text |-> <<>>, items |-> <<c>>]

Clipping(page, location, datetime, content, clip_type) ==
    [clip_type |-> clip_type, page |-> page, location |-> location,
     datetime |-> datetime, content |-> content]

is_merged(c) == c.content.kind = "list"

\* get_position(prefer_location=True, as_type=int)
get_position(c) ==
    IF c.location # None THEN c.location
    ELSE IF c.page # None THEN c.page
    ELSE <<>>

Lt_by_end(a, b) == get_position(a)[2] < get_position(b)[2]

\* Clipping.__lt__
Lt(a, b) == get_position(a)[1] < get_position(b)[1]

subsumes_wrong_end(a, b) ==
    /\ get_position(a)[1] <= get_position(b)[1]
    /\ get_position(a)[2] >= get_position(b)[1]

subsumes(a, b) ==
    /\ get_position(a)[1] <= get_position(b)[1]
    /\ get_position(a)[2] >= get_position(b)[2]

merge_interval_keeps_self(x, y) ==
    IF x # None THEN x ELSE y

merge_interval(x, y) ==
    IF x # None /\ y # None
    THEN <<Min({x[1], y[1]}), Max({x[2], y[2]})>>
    ELSE IF x = None /\ y # None THEN y
    ELSE x

merge_datetime(x, y) ==
    IF x # None /\ y # None
    THEN <<Max({x[1], y[1]})>>
    ELSE IF x = None /\ y # None THEN y
    ELSE x

content_list(c) == IF is_merged(c) THEN c.content.items ELSE <<c>>

merge(a, b) ==
    [clip_type |-> a.clip_type \cup b.clip_type,
     page      |-> merge_interval(a.page, b.page),
     location  |-> merge_interval(a.location, b.location),
     datetime  |-> merge_datetime(a.datetime, b.datetime),
     content   |-> ListContent(content_list(a) \o content_list(b))]

\* ------------------------------------------------------ Clipping.deduplicate

OK == "ok"

\* key=lambda c: c.datetime if c.datetime else 0
dt_key(c) ==
    IF c.datetime # None
    THEN [kind |-> "datetime", v |-> c.datetime[1]]
    ELSE [kind |-> "int", v |-> 0]

\* max(cur, c, key=...): c replaces cur only when its key is strictly greater
newer(cur, c) == IF dt_key(c).v > dt_key(cur).v THEN c ELSE cur

\* the loop over self.content that fills the dict new_content; the dict is
\* kept as the list of its values, in insertion order, one per clip_type.
\* Comparing a datetime key with the int key 0 raises TypeError.
RECURSIVE gather(_, _, _)
gather(content, i, new_content) ==
    IF i > Len(content) THEN [vals |-> new_content, err |-> OK]
    ELSE LET c   == content[i]
             hit == {j \in 1..Len(new_content) :
                        new_content[j].clip_type = c.clip_type}
         IN  IF hit = {} THEN gather(content, i + 1, Append(new_content, c))
             ELSE LET j   == CHOOSE k \in hit : TRUE
                      cur == new_content[j]
                  IN  IF dt_key(cur).kind # dt_key(c).kind
                      THEN [vals |-> new_content, err |-> "TypeError"]
                      ELSE gather(content, i + 1,
                                  [new_content EXCEPT ![j] = newer(cur, c)])

\* (min([c.X[0] for c in content]), max([c.X[0] for c in content]))
dedup_interval(ivs) ==
    <<Min({ivs[i][1] : i \in 1..Len(ivs)}), Max({ivs[i][1] : i \in 1..Len(ivs)})>>

\* self.content = self.content[0] if len(self.content) == 1 else self.content
collapse(vals) == IF Len(vals) = 1 THEN ClipContent(vals[1]) ELSE ListContent(vals)

\* The clipping as deduplicate leaves it, and the exception it raised if any.
\* c.page[0] on a child whose page is None raises TypeError after
\* self.content was already replaced.
deduplicate(self) ==
    IF ~is_merged(self) THEN [clip |-> self, err |-> OK]
    ELSE LET g == gather(self.content.items, 1, <<>>) IN
         IF g.err # OK THEN [clip |-> self, err |-> g.err]
         ELSE
         LET vals == g.vals
             c1 == [self EXCEPT !.content = ListContent(vals)]
             page_fails == /\ self.page # None
                           /\ \E i \in 1..Len(vals) : vals[i].page = None
             c2 == IF self.page # None /\ ~page_fails
                   THEN [c1 EXCEPT !.page =
                            dedup_interval([i \in 1..Len(vals) |-> vals[i].page])]
                   ELSE c1
             loc_fails == /\ self.location # None
                          /\ \E i \in 1..Len(vals) : vals[i].location = None
             c3 == IF self.location # None /\ ~loc_fails
                   THEN [c2 EXCEPT !.location =
                            dedup_interval([i \in 1..Len(vals) |-> vals[i].location])]
                   ELSE c2
         IN  IF page_fails THEN [clip |-> c1, err |-> "TypeError"]
             ELSE IF loc_fails THEN [clip |-> c2, err |-> "TypeError"]
             ELSE [clip |-> [c3 EXCEPT !.content = collapse(vals)], err |-> OK]

\* ---------------------------------------------------------------- Document

\* sorted(self.get_clippings()): a stable sort with Clipping.__lt__, given as
\* the list of indices into self.clippings in sorted order
RECURSIVE sorted_from(_, _, _)
sorted_from(cs, i, perm) ==
    IF i > Len(cs) THEN perm
    ELSE LET later == {k \in 1..Len(perm) : Lt(cs[i], cs[perm[k]])}
             at    == IF later = {} THEN Len(perm) + 1 ELSE Min(later)
         IN  sorted_from(cs, i + 1,
                 SubSeq(perm, 1, at - 1) \o <<i>> \o SubSeq(perm, at, Len(perm)))

sorted_idcs(cs) == sorted_from(cs, 1, <<>>)

sorted(cs) == [k \in 1..Len(cs) |-> cs[sorted_idcs(cs)[k]]]

\* the lookahead loop of merge_clippings (data.py 57-71)
RECURSIVE lookahead(_, _, _, _, _, _)
lookahead(snap, clip_idx, next_idx, merged_clipping, clip_end, del_idcs) ==
    IF next_idx > Len(snap)
    THEN [merged |-> merged_clipping, del |-> del_idcs]
    ELSE LET next_clipping == snap[next_idx]
             next_start    == get_position(next_clipping)[1]
         IN  IF next_start > clip_end
             THEN [merged |-> merged_clipping, del |-> del_idcs]
             ELSE IF \/ subsumes(merged_clipping, next_clipping)
                     \/ subsumes(next_clipping, merged_clipping)
                  THEN LET m == merge(merged_clipping, next_clipping)
                       IN  lookahead(snap, clip_idx, next_idx + 1, m,
                                     get_position(m)[2],
                                     del_idcs \cup {clip_idx, next_idx})
                  ELSE lookahead(snap, clip_idx, next_idx + 1,
                                 merged_clipping, clip_end, del_idcs)

\* the outer loop of merge_clippings (data.py 49-74): del_idcs holds indices
\* of the sorted snapshot, made holds the clippings add_clipping appended
RECURSIVE scan_adds_always(_, _, _, _)
scan_adds_always(snap, clip_idx, del_idcs, made) ==
    IF clip_idx > Len(snap) THEN [del |-> del_idcs, made |-> made]
    ELSE IF clip_idx \in del_idcs
    THEN scan_adds_always(snap, clip_idx + 1, del_idcs, made)
    ELSE LET r == lookahead(snap, clip_idx, clip_idx + 1, snap[clip_idx],
                            get_position(snap[clip_idx])[2], del_idcs)
         IN  scan_adds_always(snap, clip_idx + 1, r.del, Append(made, r.merged))

RECURSIVE scan(_, _, _, _)
scan(snap, clip_idx, del_idcs, made) ==
    IF clip_idx > Len(snap) THEN [del |-> del_idcs, made |-> made]
    ELSE IF clip_idx \in del_idcs THEN scan(snap, clip_idx + 1, del_idcs, made)
    ELSE LET r == lookahead(snap, clip_idx, clip_idx + 1, snap[clip_idx],
                            get_position(snap[clip_idx])[2], del_idcs)
         IN  scan(snap, clip_idx + 1, r.del,
                  IF clip_idx \in r.del THEN Append(made, r.merged) ELSE made)

\* the rebuild loop (data.py 77-88): clip_idx runs over self.clippings, the
\* originals in insertion order followed by the composites
RECURSIVE rebuild(_, _, _)
rebuild(cs, del_idcs, clip_idx) ==
    IF clip_idx > Len(cs) THEN <<>>
    ELSE LET rest == rebuild(cs, del_idcs, clip_idx + 1)
         IN  IF clip_idx \in del_idcs THEN rest ELSE <<cs[clip_idx]>> \o rest

\* self._type_idx_map[clipping.clip_type].append(idx) on a defaultdict(list)
idx_append(map, clip_type, idx) ==
    IF clip_type \in DOMAIN map
    THEN [map EXCEPT ![clip_type] = Append(@, idx)]
    ELSE [t \in DOMAIN map \cup {clip_type} |->
             IF t = clip_type THEN <<idx>> ELSE map[t]]

EmptyMap == [t \in {} |-> <<>>]

RECURSIVE rebuild_type_idx_map_off_by_one(_, _, _)
rebuild_type_idx_map_off_by_one(cs, i, map) ==
    IF i > Len(cs) THEN map
    ELSE rebuild_type_idx_map_off_by_one(cs, i + 1,
                                         idx_append(map, cs[i].clip_type, i + 1))

RECURSIVE rebuild_type_idx_map(_, _, _)
rebuild_type_idx_map(cs, i, map) ==
    IF i > Len(cs) THEN map
    ELSE rebuild_type_idx_map(cs, i + 1, idx_append(map, cs[i].clip_type, i))

\* get_clippings(clip_type) for a given type: the clippings at the indices
\* the type index holds for it, in that order (none for an unknown type)
get_clippings(map, cs, clip_type) ==
    IF clip_type \in DOMAIN map
    THEN [k \in 1..Len(map[clip_type]) |-> cs[map[clip_type][k]]]
    ELSE <<>>

\* merge_clippings as a whole: the new clippings list, the new type index and
\* what the pass did
merge_clippings(cs) ==
    LET perm == sorted_idcs(cs)
        snap == [k \in 1..Len(cs) |-> cs[perm[k]]]
        s    == scan(snap, 1, {}, <<>>)
        new_clippings == rebuild(cs \o s.made, s.del, 1)
    IN  [clippings |-> new_clippings,
         type_idx_map |-> rebuild_type_idx_map(new_clippings, 1, EmptyMap),
         perm |-> perm, del |-> s.del, made |-> s.made]

\* deduplicate_clippings: in list order, stopping at the first exception
RECURSIVE deduplicate_clippings(_, _)
deduplicate_clippings(cs, i) ==
    IF i > Len(cs) THEN [clippings |-> cs, err |-> OK]
    ELSE IF ~is_merged(cs[i]) THEN deduplicate_clippings(cs, i + 1)
    ELSE LET d == deduplicate(cs[i])
             cs2 == [cs EXCEPT ![i] = d.clip]
         IN  IF d.err # OK THEN [clippings |-> cs2, err |-> d.err]
             ELSE deduplicate_clippings(cs2, i + 1)

\* ------------------------------------------------ the inputs of the model

MaxClippings == 3

DocLocations == {<<1, 3>>, <<2, 2>>, <<2, 4>>}

\* notes and bookmarks sit at one location, highlights span a range
PointLocations == {l \in DocLocations : l[1] = l[2]}

\* a clipping as first made, and as made again later with a shorter text
DocVersions ==
    {[datetime |-> <<1>>, text |-> <<"a", "b">>],
     [datetime |-> <<2>>, text |-> <<"b">>]}

\* the clippings a parser hands to add_clipping: one tag, literal text
\* (a bookmark's text line is empty)
DocLeaves ==
    {Clipping(None, l, v.datetime, TextContent(v.text), {"highlight"}) :
        l \in DocLocations, v \in DocVersions}
    \cup {Clipping(None, l, v.datetime, TextContent(v.text), {"note"}) :
        l \in PointLocations, v \in DocVersions}
    \cup {Clipping(None, l, v.datetime, TextContent(<<>>), {"bookmark"}) :
        l \in PointLocations, v \in DocVersions}

\* ------------------------------------------- the life of one Document

\* pre: the clippings before the pass; perm, del, made: the sorted snapshot's
\* indices, del_idcs and the composites of a merge pass; prev_op: the
\* operation that preceded a run of main()'s merge-and-deduplicate
NoPass ==
    [pre |-> <<>>, perm |-> <<>>, del |-> {}, made |-> <<>>, prev_op |-> "none"]

NoClip == Clipping(None, None, None, TextContent(<<>>), {})

NoRet ==
    [fn |-> "none", before |-> NoClip, clip |-> NoClip, val |-> FALSE, err |-> OK]

NoFound ==
    [status |-> "none", lo |-> 0, hi |-> 0, query_len |-> 0, start_idx |-> 0]

ClipIdle ==
    /\ self_clip = NoClip
    /\ other_clip = NoClip
    /\ ret = NoRet

LocateIdle ==
    /\ page_txt_raw = <<>>
    /\ clipping_content = <<>>
    /\ found = NoFound

\* no merge_clippings call is running
NoFrame ==
    [pc |-> "idle", snap |-> <<>>, clip_idx |-> 0, next_idx |-> 0,
     merged_clipping |-> NoClip, clip_end |-> 0, del_idcs |-> {},
     members |-> <<>>, absorbed |-> <<>>, stop |-> 0]

ScanIdle == frame = NoFrame

DocIdle ==
    /\ clippings = <<>>
    /\ type_idx_map = EmptyMap
    /\ err = OK
    /\ last_op = "init"
    /\ n_added = 0
    /\ pass = NoPass

\* Document.__init__
Init == DocIdle /\ ClipIdle /\ LocateIdle /\ ScanIdle

\* Document.add_clipping
AddClipping(c) ==
    /\ err = OK
    /\ n_added < MaxClippings
    /\ clippings' = Append(clippings, c)
    /\ type_idx_map' = idx_append(type_idx_map, c.clip_type, Len(clippings) + 1)
    /\ n_added' = n_added + 1
    /\ last_op' = "add"
    /\ pass' = NoPass
    /\ UNCHANGED <<err, self_clip, other_clip, ret, page_txt_raw,
                   clipping_content, found, frame>>

\* Document.del_clippings
DelClippings ==
    /\ err = OK
    /\ clippings' = <<>>
    /\ type_idx_map' = EmptyMap
    /\ n_added' = 0
    /\ last_op' = "del"
    /\ pass' = NoPass
    /\ UNCHANGED <<err, self_clip, other_clip, ret, page_txt_raw,
                   clipping_content, found, frame>>

\* Document.merge_clippings
MergeClippings ==
    /\ err = OK
    /\ LET m == merge_clippings(clippings)
       IN  /\ clippings' = m.clippings
           /\ type_idx_map' = m.type_idx_map
           /\ pass' = [NoPass EXCEPT !.pre = clippings, !.perm = m.perm,
                                        !.del = m.del, !.made = m.made]
    /\ last_op' = "merge"
    /\ UNCHANGED <<err, n_added, self_clip, other_clip, ret, page_txt_raw,
                   clipping_content, found, frame>>

\* Document.deduplicate_clippings
DeduplicateClippings ==
    /\ err = OK
    /\ LET d == deduplicate_clippings(clippings, 1)
       IN  /\ clippings' = d.clippings
           /\ err' = d.err
    /\ pass' = [NoPass EXCEPT !.pre = clippings]
    /\ last_op' = "dedup"
    /\ UNCHANGED <<type_idx_map, n_added, self_clip, other_clip, ret,
                   page_txt_raw, clipping_content, found, frame>>

\* main() with --merge: merge_clippings() then deduplicate_clippings()
Consolidate ==
    /\ err = OK
    /\ LET m == merge_clippings(clippings)
           d == deduplicate_clippings(m.clippings, 1)
       IN  /\ clippings' = d.clippings
           /\ err' = d.err
           /\ type_idx_map' = m.type_idx_map
           /\ pass' = [pre |-> clippings, perm |-> m.perm, del |-> m.del,
                       made |-> m.made, prev_op |-> last_op]
    /\ last_op' = "consolidate"
    /\ UNCHANGED <<n_added, self_clip, other_clip, ret, page_txt_raw,
                   clipping_content, found, frame>>

Next ==
    \/ \E c \in DocLeaves : AddClipping(c)
    \/ DelClippings
    \/ MergeClippings
    \/ DeduplicateClippings
    \/ Consolidate

Spec == Init /\ [][Next]_vars

\* --------------------------------------- calls of the Clipping methods

MaxChildren == 2

ClipTags == {"highlight", "note", "bookmark"}

\* page only, location only, and both
ClipPositions ==
    {[page |-> None,      location |-> <<1, 3>>],
     [page |-> None,      location |-> <<2, 2>>],
     [page |-> <<1, 2>>,  location |-> None],
     [page |-> <<2, 3>>,  location |-> <<2, 4>>]}

ClipVersions ==
    {[datetime |-> None,  text |-> <<"a", "b">>],
     [datetime |-> <<1>>, text |-> <<"a", "b">>],
     [datetime |-> <<2>>, text |-> <<"b">>]}

ClipLeaves ==
    {Clipping(p.page, p.location, v.datetime, TextContent(v.text), {t}) :
        p \in ClipPositions, v \in ClipVersions, t \in ClipTags}

\* two leaf clippings a and b
InitClip ==
    /\ self_clip \in ClipLeaves
    /\ other_clip \in ClipLeaves
    /\ ret = NoRet
    /\ DocIdle
    /\ LocateIdle
    /\ ScanIdle

ClipFrame ==
    UNCHANGED <<clippings, type_idx_map, err, last_op, n_added, pass,
                self_clip, other_clip, page_txt_raw, clipping_content, found, frame>>

\* the receiver of the next call: a, or the composite the last merge returned
Receiver == IF ret.fn = "merge" THEN ret.clip ELSE self_clip

\* a.subsumes(b)
CallSubsumes ==
    /\ ret.fn = "none"
    /\ ret' = [fn |-> "subsumes", before |-> self_clip, clip |-> self_clip,
               val |-> subsumes(self_clip, other_clip), err |-> OK]
    /\ ClipFrame

\* k = a.merge(b), then k.merge(b)
CallMerge ==
    /\ ret.fn \in {"none", "merge"}
    /\ Len(content_list(Receiver)) < MaxChildren
    /\ ret' = [fn |-> "merge", before |-> Receiver,
               clip |-> merge(Receiver, other_clip), val |-> FALSE, err |-> OK]
    /\ ClipFrame

\* a.deduplicate() or k.deduplicate()
CallDeduplicate ==
    /\ ret.fn \in {"none", "merge"}
    /\ LET d == deduplicate(Receiver)
       IN  ret' = [fn |-> "deduplicate", before |-> Receiver, clip |-> d.clip,
                   val |-> FALSE, err |-> d.err]
    /\ ClipFrame

NextClip == CallSubsumes \/ CallMerge \/ CallDeduplicate

SpecClip == InitClip /\ [][NextClip]_vars

\* ------------------------------------------- PdfMergeExporter: page text
\* Offsets into a str are 0-based as in the code; s[i] of the code is
\* s[i + 1] here.

NL == "\n"

\* _get_page_text: the cleaned text and, per cleaned character, its raw offset.
\* A '-' is never appended: followed by a line break it takes the line break
\* with it, otherwise it is dropped alone.
RECURSIVE get_page_text_keeps_hyphen(_, _, _, _)
get_page_text_keeps_hyphen(raw, cursor_idx, page_txt, raw_idx_map) ==
    IF cursor_idx >= Len(raw)
    THEN [page_txt |-> page_txt, raw_idx_map |-> raw_idx_map]
    ELSE LET cur_char == raw[cursor_idx + 1] IN
         IF cur_char = "-" /\ cursor_idx + 1 < Len(raw) /\ raw[cursor_idx + 2] = NL
         THEN get_page_text_keeps_hyphen(raw, cursor_idx + 2, page_txt, raw_idx_map)
         ELSE get_page_text_keeps_hyphen(raw, cursor_idx + 1,
                  Append(page_txt, IF cur_char = NL THEN " " ELSE cur_char),
                  Append(raw_idx_map, cursor_idx))

RECURSIVE get_page_text(_, _, _, _)
get_page_text(raw, cursor_idx, page_txt, raw_idx_map) ==
    IF cursor_idx >= Len(raw)
    THEN [page_txt |-> page_txt, raw_idx_map |-> raw_idx_map]
    ELSE LET cur_char == raw[cursor_idx + 1] IN
         IF cur_char = "-"
         THEN IF cursor_idx + 1 < Len(raw) /\ raw[cursor_idx + 2] = NL
              THEN get_page_text(raw, cursor_idx + 2, page_txt, raw_idx_map)
              ELSE get_page_text(raw, cursor_idx + 1, page_txt, raw_idx_map)
         ELSE IF cur_char = NL
         THEN get_page_text(raw, cursor_idx + 1, Append(page_txt, " "),
                            Append(raw_idx_map, cursor_idx))
         ELSE get_page_text(raw, cursor_idx + 1, Append(page_txt, cur_char),
                            Append(raw_idx_map, cursor_idx))

\* clipping.content.replace('-', '')
remove_hyphens(txt) == SelectSeq(txt, LAMBDA ch : ch # "-")

\* txt[i:i+n] == q
MatchAt(txt, q, i) ==
    /\ i + Len(q) <= Len(txt)
    /\ \A k \in 1..Len(q) : txt[i + k] = q[k]

\* [m.start() for m in pattern.finditer(txt)]: the occurrences found scanning
\* left to right, each search resuming where the previous match ended
RECURSIVE finditer(_, _, _)
finditer(txt, q, pos) ==
    LET hits == {i \in pos..(Len(txt) - Len(q)) : MatchAt(txt, q, i)}
    IN  IF hits = {} THEN <<>>
        ELSE <<Min(hits)>> \o finditer(txt, q, Min(hits) + Len(q))

\* raw_idx_map[i] with Python's list indexing: a negative i counts from the
\* end, anything outside -len..len-1 raises IndexError
IndexOk(list, i) == -Len(list) <= i /\ i < Len(list)

IndexAt(list, i) == IF i >= 0 THEN list[i + 1] ELSE list[Len(list) + i + 1]

\* lines 221-226: the single match of the window at start_idx
anchor(t, clipping_txt, query_len, start_idx, m_start) ==
    LET txt_start_idx == m_start - start_idx
        txt_end_idx   == txt_start_idx + Len(clipping_txt)
    IN  IF ~IndexOk(t.raw_idx_map, txt_start_idx)
           \/ ~IndexOk(t.raw_idx_map, txt_end_idx)
        THEN [status |-> "IndexError", lo |-> 0, hi |-> 0,
              query_len |-> query_len, start_idx |-> start_idx]
        ELSE [status |-> "anchor",
              lo |-> IndexAt(t.raw_idx_map, txt_start_idx),
              hi |-> IndexAt(t.raw_idx_map, txt_end_idx),
              query_len |-> query_len, start_idx |-> start_idx]

Empty(query_len, start_idx) ==
    [status |-> "empty", lo |-> 0, hi |-> 0,
     query_len |-> query_len, start_idx |-> start_idx]

\* the first pair of loops of _search_page (lines 211-244); ambiguous_match
\* is reset at each query_len
RECURSIVE search_windows(_, _, _, _, _)
search_windows(t, clipping_txt, query_len, start_idx, ambiguous_match) ==
    IF query_len <= 0 THEN Empty(query_len, start_idx)
    ELSE IF start_idx + query_len > Len(clipping_txt)
    THEN IF ambiguous_match THEN Empty(query_len, start_idx)
         ELSE search_windows(t, clipping_txt, query_len - 1, 0, FALSE)
    ELSE LET cur_query == SubSeq(clipping_txt, start_idx + 1, start_idx + query_len)
             matches   == finditer(t.page_txt, cur_query, 0)
         IN  IF Len(matches) = 1
             THEN anchor(t, clipping_txt, query_len, start_idx, matches[1])
             ELSE search_windows(t, clipping_txt, query_len, start_idx + 1,
                                 ambiguous_match \/ Len(matches) > 0)

\* _search_page up to line 244: with an empty clipping_txt the loop body never
\* runs and line 243 reads the unassigned local `matches`
search_page(raw, content) ==
    LET t == get_page_text(raw, 0, <<>>, <<>>)
        clipping_txt == remove_hyphens(content)
    IN  IF Len(clipping_txt) = 0
        THEN [status |-> "UnboundLocalError", lo |-> 0, hi |-> 0,
              query_len |-> 0, start_idx |-> 0]
        ELSE search_windows(t, clipping_txt, Len(clipping_txt), 0, FALSE)

\* ------------------------------------------------ searching one page

MaxPageLen == 4

MaxContentLen == 2

PageChars == {"a", "b", "-", NL}

ContentChars == {"a", "b", "-"}

StrsUpTo(chars, n) == UNION {[1..k -> chars] : k \in 0..n}

InitLocate ==
    /\ page_txt_raw \in StrsUpTo(PageChars, MaxPageLen)
    /\ clipping_content \in StrsUpTo(ContentChars, MaxContentLen)
    /\ found = NoFound
    /\ DocIdle
    /\ ClipIdle
    /\ ScanIdle

\* PdfMergeExporter._search_page(page, clipping), min_query_len = 0
SearchPage ==
    /\ found.status = "none"
    /\ found' = search_page(page_txt_raw, clipping_content)
    /\ UNCHANGED <<clippings, type_idx_map, err, last_op, n_added, pass,
                   self_clip, other_clip, ret, page_txt_raw, clipping_content,
                   frame>>

NextLocate == SearchPage

SpecLocate == InitLocate /\ [][NextLocate]_vars

\* ------------------------------- merge_clippings, one loop step at a time

MaxScanned == 3

\* location only, page only, and both (the location is then preferred)
ScanPositions ==
    {[page |-> None,     location |-> <<1, 5>>],
     [page |-> None,     location |-> <<2, 7>>],
     [page |-> None,     location |-> <<3, 4>>],
     [page |-> None,     location |-> <<6, 6>>],
     [page |-> <<3, 6>>, location |-> None],
     [page |-> <<1, 1>>, location |-> <<5, 6>>]}

ScanLeaves ==
    {Clipping(p.page, p.location, <<1>>, TextContent(<<"a">>), {"highlight"}) :
        p \in ScanPositions}
    \cup {Clipping(None, l, <<1>>, TextContent(<<"a">>), {"note"}) :
        l \in {<<3, 4>>, <<6, 6>>}}

\* a document after add_clipping was called for each of its clippings
InitScan ==
    /\ clippings \in UNION {[1..n -> ScanLeaves] : n \in 0..MaxScanned}
    /\ type_idx_map = rebuild_type_idx_map(clippings, 1, EmptyMap)
    /\ err = OK
    /\ last_op = "init"
    /\ n_added = 0
    /\ pass = NoPass
    /\ frame = NoFrame
    /\ ClipIdle
    /\ LocateIdle

ScanFrame ==
    UNCHANGED <<err, last_op, n_added, pass, self_clip, other_clip, ret,
                page_txt_raw, clipping_content, found>>

\* lines 46-47: the sorted snapshot and the empty del_idcs
BeginMerge ==
    /\ frame.pc = "idle"
    /\ frame' = [frame EXCEPT !.pc = "outer", !.snap = sorted(clippings),
                              !.clip_idx = 1]
    /\ UNCHANGED <<clippings, type_idx_map>>
    /\ ScanFrame

\* lines 51-52: the clipping was merged before
SkipMerged ==
    /\ frame.pc = "outer"
    /\ frame.clip_idx <= Len(frame.snap)
    /\ frame.clip_idx \in frame.del_idcs
    /\ frame' = [frame EXCEPT !.clip_idx = @ + 1]
    /\ UNCHANGED <<clippings, type_idx_map>>
    /\ ScanFrame

\* lines 53-55: the clipping becomes the accumulator
StartLookahead ==
    /\ frame.pc = "outer"
    /\ frame.clip_idx <= Len(frame.snap)
    /\ frame.clip_idx \notin frame.del_idcs
    /\ frame' = [frame EXCEPT
                    !.pc = "inner",
                    !.merged_clipping = frame.snap[frame.clip_idx],
                    !.clip_end = get_position(frame.snap[frame.clip_idx])[2],
                    !.next_idx = frame.clip_idx + 1,
                    !.members = <<frame.clip_idx>>,
                    !.stop = 0]
    /\ UNCHANGED <<clippings, type_idx_map>>
    /\ ScanFrame

\* lines 61-62: the candidate starts after the accumulator's end
LookaheadBreak ==
    /\ frame.pc = "inner"
    /\ frame.next_idx <= Len(frame.snap)
    /\ get_position(frame.snap[frame.next_idx])[1] > frame.clip_end
    /\ frame' = [frame EXCEPT !.pc = "close", !.stop = frame.next_idx]
    /\ UNCHANGED <<clippings, type_idx_map>>
    /\ ScanFrame

\* lines 64-71: one subsumes the other, the candidate is merged in
LookaheadMerge ==
    /\ frame.pc = "inner"
    /\ frame.next_idx <= Len(frame.snap)
    /\ get_position(frame.snap[frame.next_idx])[1] <= frame.clip_end
    /\ \/ subsumes(frame.merged_clipping, frame.snap[frame.next_idx])
       \/ subsumes(frame.snap[frame.next_idx], frame.merged_clipping)
    /\ LET m == merge(frame.merged_clipping, frame.snap[frame.next_idx])
       IN  frame' = [frame EXCEPT
                        !.merged_clipping = m,
                        !.clip_end = get_position(m)[2],
                        !.del_idcs = @ \cup {frame.clip_idx, frame.next_idx},
                        !.members = Append(@, frame.next_idx),
                        !.next_idx = @ + 1]
    /\ UNCHANGED <<clippings, type_idx_map>>
    /\ ScanFrame

\* line 64 false: on to the next candidate
LookaheadPass ==
    /\ frame.pc = "inner"
    /\ frame.next_idx <= Len(frame.snap)
    /\ get_position(frame.snap[frame.next_idx])[1] <= frame.clip_end
    /\ ~subsumes(frame.merged_clipping, frame.snap[frame.next_idx])
    /\ ~subsumes(frame.snap[frame.next_idx], frame.merged_clipping)
    /\ frame' = [frame EXCEPT !.next_idx = @ + 1]
    /\ UNCHANGED <<clippings, type_idx_map>>
    /\ ScanFrame

\* line 57: the range is exhausted
LookaheadEnd ==
    /\ frame.pc = "inner"
    /\ frame.next_idx > Len(frame.snap)
    /\ frame' = [frame EXCEPT !.pc = "close"]
    /\ UNCHANGED <<clippings, type_idx_map>>
    /\ ScanFrame

\* lines 73-74: a composite is added to the document with add_clipping
CloseLookahead ==
    /\ frame.pc = "close"
    /\ IF frame.clip_idx \in frame.del_idcs
       THEN /\ clippings' = Append(clippings, frame.merged_clipping)
            /\ type_idx_map' = idx_append(type_idx_map,
                                          frame.merged_clipping.clip_type,
                                          Len(clippings) + 1)
            /\ frame' = [frame EXCEPT !.pc = "outer", !.clip_idx = @ + 1,
                                      !.absorbed = Append(@, frame.members)]
       ELSE /\ UNCHANGED <<clippings, type_idx_map>>
            /\ frame' = [frame EXCEPT !.pc = "outer", !.clip_idx = @ + 1]
    /\ ScanFrame

\* lines 77-88: the rebuild of the clippings list and of the type index
Rebuild ==
    /\ frame.pc = "outer"
    /\ frame.clip_idx > Len(frame.snap)
    /\ clippings' = rebuild(clippings, frame.del_idcs, 1)
    /\ type_idx_map' = rebuild_type_idx_map(clippings', 1, EmptyMap)
    /\ frame' = [frame EXCEPT !.pc = "done"]
    /\ ScanFrame

NextScan ==
    \/ BeginMerge
    \/ SkipMerged
    \/ StartLookahead
    \/ LookaheadBreak
    \/ LookaheadMerge
    \/ LookaheadPass
    \/ LookaheadEnd
    \/ CloseLookahead
    \/ Rebuild

SpecScan == InitScan /\ [][NextScan]_vars

\* ===================================================== the properties

Count(seq, x) == Cardinality({i \in 1..Len(seq) : seq[i] = x})

SameBag(s, t) == \A x \in Range(s) \cup Range(t) : Count(s, x) = Count(t, x)

RECURSIVE WithoutIdcs(_, _, _)
WithoutIdcs(seq, drop, i) ==
    IF i > Len(seq) THEN <<>>
    ELSE (IF i \in drop THEN <<>> ELSE <<seq[i]>>) \o WithoutIdcs(seq, drop, i + 1)

\* the positions in self.clippings of the snapshot entries that a merge pass
\* put into del_idcs, i.e. of the originals that took part in a merge
MergedOriginals == {pass.perm[k] : k \in pass.del}

IsSorted(cs) == \A i \in 1..(Len(cs) - 1) : ~Lt(cs[i + 1], cs[i])

\* C1: after merge_clippings, whatever the insertion order, the collection
\* holds exactly the originals that took part in no merge, unchanged, and the
\* composites made during the pass: no merged original remains and no
\* unmerged original is dropped.
C1_MergeKeepsUnmergedAndComposites ==
    last_op = "merge" =>
        SameBag(clippings, WithoutIdcs(pass.pre, MergedOriginals, 1) \o pass.made)

HasBookmark(c) == "bookmark" \in c.clip_type

\* C2: a clipping tagged bookmark and one without that tag never subsume
\* each other, in either direction, whatever their positions.
C2_BookmarkIsolation ==
    (ret.fn = "subsumes" /\ HasBookmark(self_clip) # HasBookmark(other_clip))
        => ret.val = FALSE

LeafTexts(c) == {k.content.text : k \in Range(content_list(c))}

ContentMatched(a, b) ==
    \A tb \in LeafTexts(b) : \E ta \in LeafTexts(a) : Contains(ta, tb)

PositionContains(a, b) ==
    LET pa == get_position(a)
        pb == get_position(b)
    IN  pa[1] <= pb[1] /\ pb[2] <= pa[2]

\* C3: when A and B share a type tag, A.subsumes(B) is true only if A's
\* normalized interval contains B's and every leaf text of B is equal to or
\* contained in some leaf text of A.
C3_TagSharingContainment ==
    (ret.fn = "subsumes" /\ self_clip.clip_type \cap other_clip.clip_type # {}
        /\ ret.val)
        => PositionContains(self_clip, other_clip)
           /\ ContentMatched(self_clip, other_clip)

Lesser(x, y) == IF x <= y THEN x ELSE y

Greater(x, y) == IF x >= y THEN x ELSE y

IntervalRule(x, y, r) ==
    /\ (x # None /\ y # None) => r = <<Lesser(x[1], y[1]), Greater(x[2], y[2])>>
    /\ (x # None /\ y = None) => r = x
    /\ (x = None /\ y # None) => r = y
    /\ (x = None /\ y = None) => r = None

\* C4: the composite returned by merge has, for pages and for locations
\* independently, (min of the starts, max of the ends) when both operands
\* have the interval, the one present interval when exactly one has it, and
\* none when neither has it.
C4_MergeIntervalRule ==
    ret.fn = "merge" =>
        /\ IntervalRule(ret.before.page, other_clip.page, ret.clip.page)
        /\ IntervalRule(ret.before.location, other_clip.location,
                        ret.clip.location)

\* a merge of two clippings that both have pages and both have locations,
\* where the union is neither operand's interval
C4_Witness ==
    /\ ret.fn = "merge"
    /\ ret.before.page # None /\ other_clip.page # None
    /\ ret.clip.page \notin {ret.before.page, other_clip.page}
    /\ ret.before.location = None /\ other_clip.location # None

\* the children a deduplicated clipping retains
Retained(c) == Range(c.content.items)

\* a missing timestamp ranks below every timestamp
Rank(c) == IF c.datetime = None THEN 0 ELSE c.datetime[1] + 1

\* C5: deduplicate on a composite completes without error, keeps exactly one
\* child per type tag set of its children (so never more tag sets than
\* before), and the child kept has the maximum timestamp among the children
\* with its tag set, a missing timestamp ranking lowest.
C5_DedupKeepsNewestPerType ==
    (ret.fn = "deduplicate" /\ is_merged(ret.before)) =>
        LET kids == Range(ret.before.content.items)
            kept == Retained(ret.clip)
        IN  /\ ret.err = OK
            /\ kept \subseteq kids
            /\ {k.clip_type : k \in kept} = {k.clip_type : k \in kids}
            /\ Cardinality(kept) = Cardinality({k.clip_type : k \in kids})
            /\ \A k \in kept : \A c \in kids :
                   c.clip_type = k.clip_type => Rank(c) <= Rank(k)

IntervalsUnion(ivs) ==
    <<Min({iv[1] : iv \in ivs}), Max({iv[2] : iv \in ivs})>>

\* the children's timestamps can be compared (none, or all, are missing
\* within each type tag set)
TimesComparable(c) == gather(c.content.items, 1, <<>>).err = OK

\* C6: after deduplicate on a composite, the page interval and the location
\* interval are each the union of the retained children's intervals of that
\* kind (min of starts, max of ends), and children lacking an interval cause
\* no failure.
C6_DedupIntervalUnion ==
    (ret.fn = "deduplicate" /\ is_merged(ret.before) /\ TimesComparable(ret.before))
        =>
        LET kept  == Retained(ret.clip)
            pages == {k.page : k \in kept} \ {None}
            locs  == {k.location : k \in kept} \ {None}
        IN  /\ ret.err = OK
            /\ pages # {} => ret.clip.page = IntervalsUnion(pages)
            /\ locs # {} => ret.clip.location = IntervalsUnion(locs)

IsLeaf(c) == c.content.kind = "text"

WellFormed(c) ==
    \/ IsLeaf(c)
    \/ /\ c.content.kind = "list"
       /\ Len(c.content.items) > 0
       /\ \A i \in 1..Len(c.content.items) : IsLeaf(c.content.items[i])

\* C7: when deduplicate leaves one child the clipping becomes a leaf with
\* that child's literal text and tags; so after any sequence of
\* merge_clippings and deduplicate_clippings every clipping's content is
\* literal text or a non-empty list of leaf clippings.
C7_CollapseToLeaf ==
    /\ \A i \in 1..Len(clippings) : WellFormed(clippings[i])
    /\ (last_op = "dedup" /\ err = OK) =>
          \A i \in 1..Len(clippings) :
              (is_merged(pass.pre[i])
                  /\ Cardinality({k.clip_type : k \in Retained(pass.pre[i])}) = 1)
              => \E k \in Retained(pass.pre[i]) :
                    /\ IsLeaf(clippings[i])
                    /\ clippings[i].content = k.content
                    /\ clippings[i].clip_type = k.clip_type

\* two runs of main()'s merge_clippings and deduplicate_clippings in a row
SecondRun ==
    last_op = "consolidate" /\ pass.prev_op = "consolidate" /\ err = OK

\* C8 as stated: running merge_clippings and deduplicate_clippings a second
\* time leaves the set of clippings as the first run left it.
C8_ConsolidateIdempotent ==
    SecondRun => Range(clippings) = Range(pass.pre)

\* C8 as amended: a second run whose merge pass merges nothing leaves the
\* clippings exactly as the first run left them (a second run that does
\* merge, because the first run's deduplicate shrank a composite's interval
\* into another clipping's, changes them).
C8_SecondRunWithoutMergeIsNoOp ==
    (SecondRun /\ pass.del = {}) => clippings = pass.pre

\* a second run that merged nothing, over a document holding a composite
C8_Witness ==
    /\ SecondRun
    /\ pass.del = {}
    /\ \E i \in 1..Len(clippings) : is_merged(clippings[i])

\* a and b share a tag, a starts first and ends inside b, and a's text
\* contains b's
PartialOverlapCase(a, b) ==
    /\ IsLeaf(a) /\ IsLeaf(b)
    /\ a.clip_type \cap b.clip_type # {}
    /\ get_position(a)[1] < get_position(b)[1]
    /\ get_position(b)[1] <= get_position(a)[2]
    /\ get_position(a)[2] < get_position(b)[2]
    /\ Contains(a.content.text, b.content.text)

\* a merge pass over a document of just two such clippings
PartialOverlapPass ==
    /\ last_op = "merge"
    /\ Len(pass.pre) = 2
    /\ \/ PartialOverlapCase(pass.pre[1], pass.pre[2])
       \/ PartialOverlapCase(pass.pre[2], pass.pre[1])

\* C9 as stated: two clippings that share a tag and overlap only partially,
\* the first's text containing the second's, are merged into one composite
\* whose interval is the union of both.
C9_PartialOverlapMerges ==
    PartialOverlapPass =>
        /\ Len(clippings) = 1
        /\ is_merged(clippings[1])
        /\ get_position(clippings[1]) =
               IntervalsUnion({get_position(pass.pre[1]), get_position(pass.pre[2])})

\* C9 as amended: such a pair is not merged. Neither interval contains the
\* other, so neither clipping subsumes the other; the pass makes no composite
\* and leaves both clippings as they were.
C9_PartialOverlapStaysApart ==
    PartialOverlapPass =>
        /\ clippings = pass.pre
        /\ pass.made = <<>>
        /\ pass.del = {}

C9_Witness ==
    /\ PartialOverlapPass
    /\ Len(clippings) = 2
    /\ \E i \in 1..2 : clippings[i].content.text # clippings[3 - i].content.text

Occurrences(txt, q) == {i \in 0..(Len(txt) - Len(q)) : MatchAt(txt, q, i)}

\* C10: when the clipping text occurs exactly once in the cleaned page text,
\* wherever that is (also when it ends at the page text's last character),
\* the search resolves at the full window length and yields the raw span
\* from the index-map translation of the occurrence's start to that of its
\* end.
C10_UniqueMatchResolves ==
    LET t   == get_page_text(page_txt_raw, 0, <<>>, <<>>)
        q   == remove_hyphens(clipping_content)
        occ == Occurrences(t.page_txt, q)
    IN  (found.status # "none" /\ Len(q) > 0 /\ Cardinality(occ) = 1) =>
            LET s == CHOOSE i \in occ : TRUE
                e == s + Len(q)
            IN  /\ found.status = "anchor"
                /\ found.query_len = Len(q)
                /\ found.start_idx = 0
                /\ found.lo = t.raw_idx_map[s + 1]
                /\ e < Len(t.page_txt) => found.hi = t.raw_idx_map[e + 1]

\* the page text and the clipping text as _search_page compares them
CleanPage == get_page_text(page_txt_raw, 0, <<>>, <<>>).page_txt

CleanClip == remove_hyphens(clipping_content)

\* the windows of length n of the clipping text
Windows(n) ==
    {SubSeq(CleanClip, s + 1, s + n) : s \in 0..(Len(CleanClip) - n)}

OccurrenceCount(w) == Cardinality(Occurrences(CleanPage, w))

\* at window length n no window occurs exactly once and some window occurs
\* twice or more
AmbiguousAt(n) ==
    /\ \A w \in Windows(n) : OccurrenceCount(w) # 1
    /\ \E w \in Windows(n) : OccurrenceCount(w) >= 2

SilentAt(n) == \A w \in Windows(n) : OccurrenceCount(w) = 0

\* the first window length, counting down from the full length, at which
\* some window occurs in the page text, is ambiguous
FirstAmbiguous(n) ==
    /\ n \in 1..Len(CleanClip)
    /\ AmbiguousAt(n)
    /\ \A k \in (n + 1)..Len(CleanClip) : SilentAt(k)

\* C11: at the first window length at which no window of the clipping text
\* occurs exactly once in the page text and some window occurs twice or more,
\* the search returns empty at that length, without trying a shorter one.
C11_AmbiguityFailsFast ==
    found.status # "none" =>
        \A n \in 1..Len(CleanClip) :
            FirstAmbiguous(n) => found.status = "empty" /\ found.query_len = n

\* C12: whatever the page text and the clipping text, the page search ends
\* by returning a (possibly empty) result and never by raising an error.
C12_SearchNeverRaises ==
    found.status \in {"none", "anchor", "empty"}

\* the places of the type index that hold index i
IndexedAt(i) ==
    {<<t, k>> \in (DOMAIN type_idx_map) \X (1..Len(clippings)) :
        k <= Len(type_idx_map[t]) /\ type_idx_map[t][k] = i}

\* C13: every index of the type index is a position of the clippings list,
\* the clipping there has the type it is indexed under, every clipping is
\* indexed exactly once, and get_clippings(t) yields exactly the clippings
\* of type t.
C13_TypeIndexConsistent ==
    /\ \A t \in DOMAIN type_idx_map :
           /\ Len(type_idx_map[t]) <= Len(clippings)
           /\ \A k \in 1..Len(type_idx_map[t]) :
                  /\ type_idx_map[t][k] \in 1..Len(clippings)
                  /\ clippings[type_idx_map[t][k]].clip_type = t
    /\ \A i \in 1..Len(clippings) : Cardinality(IndexedAt(i)) = 1
    /\ \A t \in DOMAIN type_idx_map \cup {c.clip_type : c \in Range(clippings)} :
           get_clippings(type_idx_map, clippings, t)
               = SelectSeq(clippings, LAMBDA c : c.clip_type = t)

\* a merge pass that made a composite and left clippings of two types
C13_Witness ==
    /\ last_op = "merge"
    /\ pass.made # <<>>
    /\ Len(clippings) >= 2
    /\ Cardinality(DOMAIN type_idx_map) >= 2

\* C14: when the lookahead breaks because a candidate starts after the
\* accumulator's current end, no snapshot entry at or after that candidate
\* subsumes the accumulator as it then is, or is subsumed by it.
C14_LookaheadStopSound ==
    (frame.pc = "close" /\ frame.stop # 0) =>
        \A j \in frame.stop..Len(frame.snap) :
            /\ ~subsumes(frame.merged_clipping, frame.snap[j])
            /\ ~subsumes(frame.snap[j], frame.merged_clipping)

\* a break after a merge that switched the accumulator from page units to
\* location units
C14_Witness ==
    /\ frame.pc = "close"
    /\ frame.stop # 0
    /\ Len(frame.members) > 1
    /\ frame.snap[frame.clip_idx].location = None
    /\ frame.merged_clipping.location # None

\* how many times snapshot index i was merged into the composites made
TimesAbsorbed(i) ==
    Cardinality({<<c, k>> \in (1..Len(frame.absorbed)) \X (1..Len(frame.snap)) :
                    k <= Len(frame.absorbed[c]) /\ frame.absorbed[c][k] = i})

\* C16: in a merge pass every clipping of the sorted snapshot is absorbed
\* into at most one composite, and at most once: a candidate consumed by an
\* earlier accumulator is not merged again by a later one.
C16_NoDuplication ==
    \A i \in 1..Len(frame.snap) : TimesAbsorbed(i) <= 1

\* the raw character at offset i (offsets count from 0)
RawAt(i) == page_txt_raw[i + 1]

\* a line break right after a '-'
AfterHyphen(i) == RawAt(i) = NL /\ i > 0 /\ RawAt(i - 1) = "-"

\* a '-' right before a line break
SoftHyphen(i) == RawAt(i) = "-" /\ i + 1 < Len(page_txt_raw) /\ RawAt(i + 1) = NL

\* the cleaned text and index map that keep exactly the raw offsets in keep
\* and turn each kept line break into a space
CleanedKeeping(keep) ==
    LET t == get_page_text(page_txt_raw, 0, <<>>, <<>>)
    IN  /\ Len(t.page_txt) = Cardinality(keep)
        /\ Len(t.raw_idx_map) = Cardinality(keep)
        /\ \A k \in 1..Len(t.raw_idx_map) :
               /\ t.raw_idx_map[k] \in keep
               /\ k > 1 => t.raw_idx_map[k - 1] < t.raw_idx_map[k]
               /\ t.page_txt[k] = IF RawAt(t.raw_idx_map[k]) = NL THEN " "
                                  ELSE RawAt(t.raw_idx_map[k])

RawOffsets == 0..(Len(page_txt_raw) - 1)

\* C15 as stated: the cleaned page text is the raw text without each '-'
\* that a line break follows and without that line break, every other line
\* break turned into a space and every other character, a '-' not followed
\* by a line break included, kept in order; the index map gives each cleaned
\* character's raw offset.
C15_OnlySoftHyphensDropped ==
    found.status # "none" =>
        CleanedKeeping({i \in RawOffsets : ~SoftHyphen(i) /\ ~AfterHyphen(i)})

\* C15 as amended: every '-' is dropped, followed by a line break or not,
\* and so is a line break right after a '-'; every other line break becomes
\* a space, every other character is kept in order, and the index map gives
\* each cleaned character's raw offset.
C15_EveryHyphenDropped ==
    found.status # "none" =>
        CleanedKeeping({i \in RawOffsets : RawAt(i) # "-" /\ ~AfterHyphen(i)})

\* a searched page with a '-' inside a line, a '-' at a line's end and a
\* line break of its own
C15_Witness ==
    /\ found.status # "none"
    /\ \E i \in RawOffsets : RawAt(i) = "-" /\ ~SoftHyphen(i)
    /\ \E i \in RawOffsets : SoftHyphen(i)
    /\ \E i \in RawOffsets : RawAt(i) = NL /\ ~AfterHyphen(i)

====
